---- MODULE Spec2Model ----
(***************************************************************************)
(* A model of the Wellness Companion (moodplus): the stress classifier and *)
(* the suggestion engine of analysis.py, and the Analyze & Save handler of *)
(* app.py over the journal_entries table of database.py.                   *)
(*                                                                         *)
(* Sentiment scores are kept in hundredths: the integer -50 is the score   *)
(* -0.5.  A text is a sequence of one-character strings; "\n" separates    *)
(* lines, " " is whitespace, "a" an alphanumeric character, "*" any other  *)
(* printable character (a bullet, an emoji) and "P" stands for the whole   *)
(* prompt the generator echoes.  raw_text is not stored in the model: the  *)
(* handler only runs with a non-blank text and nothing reads it back.      *)
(***************************************************************************)
EXTENDS Integers, Sequences, FiniteSets, TLC

VARIABLES
    store,           \* rows of journal_entries, in insertion order
    user,            \* current_user_id of the last run
    entry_date,      \* the form's date
    mood_rating,     \* the form's slider
    compound_score,  \* analyze_sentiment(journal_text), in hundredths
    stress_level,    \* classify_stress_level(compound_score, mood_rating)
    history,         \* the DataFrame handed to suggestion generation
    response,        \* what the text-generation call did
    suggestions,     \* the list returned by suggestion generation
    raised,          \* TRUE when the last call left by an exception
    save_success,    \* what save_journal_entry returned
    displayed,       \* the suggestions st.markdown wrote in the last run
    dashboard,       \* the DataFrame display_dashboard was given
    op               \* the operation that produced this state

vars == <<store, user, entry_date, mood_rating, compound_score, stress_level,
          history, response, suggestions, raised, save_success, displayed,
          dashboard, op>>

---------------------------------------------------------------------------
(* Bounds of the model. *)

MaxEntries == 2
MaxHist == 10
MaxLines == 2

(* Program constants. *)

HighScore == -50
HighMood == 3
MediumMood == 5
PositiveScore == 50
TrendWindow == 7
MinLineLen == 5

Levels == {"High", "Medium", "Low"}
ScoreVals == {-100, -51, -50, -49, -1, 0, 1, 50, 51, 100}
MoodVals == 1..10
Users == {1, 2}
Dates == {1, 2}

StressReduction == "Immediate Focus: Stress Reduction"
MoodCheckIn == "Mood Check-in"
PositiveReinforcement == "Positive Reinforcement"
MaintainBalance == "Maintain Balance"
TrendAlert == "Trend Alert"
LongTermPattern == "Long-Term Pattern"

CurrentMessages == {StressReduction, MoodCheckIn, PositiveReinforcement, MaintainBalance}

---------------------------------------------------------------------------
(* Helpers. *)

Range(s) == {s[i] : i \in DOMAIN s}

tail(s, n) == IF Len(s) <= n THEN s ELSE SubSeq(s, Len(s) - n + 1, Len(s))

RECURSIVE SumMood(_)
SumMood(h) == IF h = <<>> THEN 0 ELSE h[1].mood + SumMood(Tail(h))

CountHigh(h) == Cardinality({i \in DOMAIN h : h[i].stress = "High"})

\* list(set(xs)): the elements of xs once each, in the order the set's hash
\* table yields them; string hashes are salted per process, so any order.
Orders(S) == {s \in [1..Cardinality(S) -> S] : \A i, j \in DOMAIN s : i # j => s[i] # s[j]}

---------------------------------------------------------------------------
(* analysis.py *)

classify_stress_level_le(score, mood) ==
    IF score <= HighScore \/ mood <= HighMood THEN "High"
    ELSE IF score < 0 \/ mood <= MediumMood THEN "Medium"
    ELSE "Low"

classify_stress_level(score, mood) ==
    IF score < HighScore \/ mood <= HighMood THEN "High"
    ELSE IF score < 0 \/ mood <= MediumMood THEN "Medium"
    ELSE "Low"

current_entry_feedback_no_level(score, level) ==
    IF level = "High" THEN StressReduction
    ELSE IF score < 0 THEN MoodCheckIn
    ELSE IF score > PositiveScore THEN PositiveReinforcement
    ELSE MaintainBalance

current_entry_feedback(score, level) ==
    IF level = "High" THEN StressReduction
    ELSE IF score < 0 /\ level = "Medium" THEN MoodCheckIn
    ELSE IF score > PositiveScore THEN PositiveReinforcement
    ELSE MaintainBalance

\* recent_mood_avg < overall_mood_avg * 0.9, with both means as quotients of
\* integers: s7/7 < (sN/N) * 9/10.  The float comparison of the code agrees
\* with the exact one for every history of fewer than 21 entries.
declining_mood_le(h) ==
    10 * SumMood(tail(h, TrendWindow)) * Len(h) <= 9 * SumMood(h) * TrendWindow

declining_mood(h) ==
    10 * SumMood(tail(h, TrendWindow)) * Len(h) < 9 * SumMood(h) * TrendWindow

\* high_stress_count > len(history_df) * 0.3
chronic_stress_ge(h) == 10 * CountHigh(h) >= 3 * Len(h)

chronic_stress(h) == 10 * CountHigh(h) > 3 * Len(h)

\* The list generate_suggestions has built when it reaches its return.
suggestions_list(score, level, h) ==
    <<current_entry_feedback(score, level)>>
    \o (IF h # <<>> /\ Len(h) >= TrendWindow
        THEN (IF declining_mood(h) THEN <<TrendAlert>> ELSE <<>>)
             \o (IF chronic_stress(h) THEN <<LongTermPattern>> ELSE <<>>)
        ELSE <<>>)

\* The lists generate_suggestions can return: list(set(suggestions)).
generate_suggestions(score, level, h) == Orders(Range(suggestions_list(score, level, h)))

---------------------------------------------------------------------------
(* Texts, as the string methods of generate_suggestions_with_model see them. *)

Prompt == <<"P">>

IsSpace(c) == c \in {" ", "\n"}

\* str.replace(prompt, '')
replace_prompt(t) == SelectSeq(t, LAMBDA c : c # "P")

RECURSIVE lstrip(_)
lstrip(t) == IF t # <<>> /\ IsSpace(t[1]) THEN lstrip(Tail(t)) ELSE t

RECURSIVE rstrip(_)
rstrip(t) ==
    IF t # <<>> /\ IsSpace(t[Len(t)]) THEN rstrip(SubSeq(t, 1, Len(t) - 1)) ELSE t

\* str.strip()
strip(t) == rstrip(lstrip(t))

\* str.split('\n'): the empty text splits into one empty line.
RECURSIVE split_lines(_, _)
split_lines(t, cur) ==
    IF t = <<>> THEN <<cur>>
    ELSE IF t[1] = "\n" THEN <<cur>> \o split_lines(Tail(t), <<>>)
    ELSE split_lines(Tail(t), Append(cur, t[1]))

split(t) == split_lines(t, <<>>)

\* '\n'.join(lines)
RECURSIVE join(_)
join(ls) ==
    IF ls = <<>> THEN <<>>
    ELSE IF Len(ls) = 1 THEN ls[1]
    ELSE ls[1] \o <<"\n">> \o join(Tail(ls))

\* A filter on the first visible character instead of the length.
keep_line_bullet(line) == strip(line) # <<>> /\ lstrip(line)[1] # "a"

\* [line for line in advice_text.split('\n') if line.strip() and len(line) > 5]
keep_line(line) == strip(line) # <<>> /\ Len(line) > MinLineLen

\* response[0]['generated_text'].replace(prompt, '').strip()
advice_text(resp) == strip(replace_prompt(resp.generated_text))

\* The except branch calls generate_suggestions_rule_based, a name analysis.py
\* never binds: the handler itself leaves by NameError.
generate_suggestions_with_model(score, level, h, resp) ==
    IF resp.raises
    THEN [raised |-> TRUE, value |-> <<>>]
    ELSE [raised |-> FALSE,
          value |-> SelectSeq(split(advice_text(resp)), keep_line)]

---------------------------------------------------------------------------
(* database.py and the persistence functions of app.py *)

\* A row written with a fixed stress level instead of the computed one.
JournalEntry_low(st, u, d, mood, score, level) ==
    [id |-> Len(st) + 1, user_id |-> u, entry_date |-> d, mood_rating |-> mood,
     vader_compound_score |-> score, ml_stress_level |-> "Low"]

\* JournalEntry(...): a row of journal_entries.  id is the autoincremented
\* primary key; the table declares no unique constraint on
\* (user_id, entry_date).
JournalEntry(st, u, d, mood, score, level) ==
    [id |-> Len(st) + 1, user_id |-> u, entry_date |-> d, mood_rating |-> mood,
     vader_compound_score |-> score, ml_stress_level |-> level]

\* save_journal_entry: add and commit, or roll back and return False when the
\* session raises (db_error: the database is locked, unreachable, ...).
save_journal_entry(st, u, d, mood, score, level, db_error) ==
    IF db_error
    THEN [ok |-> FALSE, store |-> st]
    ELSE [ok |-> TRUE, store |-> Append(st, JournalEntry(st, u, d, mood, score, level))]

\* One row of the DataFrame get_user_entries_df builds.
df_row(e) ==
    [date |-> e.entry_date, mood |-> e.mood_rating,
     score |-> e.vader_compound_score, stress |-> e.ml_stress_level]

UserRows(st, u) == {i \in DOMAIN st : st[i].user_id = u}

\* get_user_entries_df: the user's rows ordered by entry_date.  Neither
\* ORDER BY nor sort_index fixes the order of rows of one date, so every
\* date-sorted order of the rows is a possible result.
get_user_entries_df(st, u) ==
    LET rows == UserRows(st, u)
        n == Cardinality(rows)
        sorted == {p \in [1..n -> rows] :
                      /\ \A i, j \in 1..n : i # j => p[i] # p[j]
                      /\ \A i, j \in 1..n :
                            i < j => st[p[i]].entry_date <= st[p[j]].entry_date}
    IN {[i \in 1..n |-> df_row(st[p[i]])] : p \in sorted}

\* history_df_before_save: run_app reads the history at step 3, before the
\* save of step 5 (st is the store before the save, saved the store after).
history_df_after_save(st, saved, u) == get_user_entries_df(saved, u)

history_df_before_save(st, saved, u) == get_user_entries_df(st, u)

---------------------------------------------------------------------------
(* Inputs. *)

NoResponse == [raises |-> FALSE, generated_text |-> <<>>]

\* Lines a generator may write after the prompt.
SampleLines ==
    { <<>>,
      <<" ">>,
      <<"*", "a">>,
      <<"*", " ", "a", "a", "a", "a">>,
      <<"a", "a", "a", "a", "a", "a">>,
      <<" ", " ", " ", " ", " ", " ">> }

Continuations == UNION {[1..n -> SampleLines] : n \in 0..MaxLines}

\* The generator raises, or returns the prompt followed by its continuation.
Responses ==
    {[raises |-> TRUE, generated_text |-> <<>>]}
    \cup {[raises |-> FALSE, generated_text |-> Prompt \o join(ls)] : ls \in Continuations}

AppResponses ==
    { [raises |-> TRUE, generated_text |-> <<>>],
      [raises |-> FALSE, generated_text |-> Prompt],
      [raises |-> FALSE,
       generated_text |-> Prompt \o <<"*", " ", "a", "a", "a", "a">>] }

\* (mood, score) pairs of history entries: Low, High and Medium days.
Kinds ==
    { [mood |-> 6, score |-> 60],
      [mood |-> 6, score |-> -80],
      [mood |-> 4, score |-> 10] }

HistoryOf(ks) ==
    [i \in DOMAIN ks |->
        [date |-> i, mood |-> ks[i].mood, score |-> ks[i].score,
         stress |-> classify_stress_level(ks[i].score, ks[i].mood)]]

Rep(k, n) == [i \in 1..n |-> k]

Histories == {HistoryOf(ks) : ks \in UNION {[1..n -> Kinds] : n \in 0..MaxHist}}

SampleHistories ==
    {<<>>}
    \cup {HistoryOf(Rep(k, TrendWindow - 1)) : k \in Kinds}
    \cup {HistoryOf(Rep(k1, 4) \o Rep(k2, TrendWindow)) : k1, k2 \in Kinds}

\* (mood, score) pairs of the entries the app model submits.
AppInputs ==
    { [mood |-> 6, score |-> -50],
      [mood |-> 3, score |-> 10],
      [mood |-> 6, score |-> 10] }

---------------------------------------------------------------------------
(* The pure functions of analysis.py, applied to drawn inputs. *)

Blank ==
    /\ store = <<>>
    /\ user = 0
    /\ entry_date = 0
    /\ response = NoResponse
    /\ suggestions = <<>>
    /\ raised = FALSE
    /\ save_success = FALSE
    /\ displayed = <<>>
    /\ dashboard = <<>>
    /\ op = "init"

InitClassify ==
    /\ Blank
    /\ compound_score \in ScoreVals
    /\ mood_rating \in MoodVals
    /\ stress_level = ""
    /\ history = <<>>

Classify ==
    /\ op = "init"
    /\ stress_level' = classify_stress_level(compound_score, mood_rating)
    /\ op' = "classify"
    /\ UNCHANGED <<store, user, entry_date, mood_rating, compound_score, history,
                   response, suggestions, raised, save_success, displayed, dashboard>>

NextClassify == Classify

SpecClassify == InitClassify /\ [][NextClassify]_vars

InitSuggest ==
    /\ Blank
    /\ compound_score \in ScoreVals
    /\ mood_rating = 0
    /\ stress_level \in Levels
    /\ history \in SampleHistories

InitTrend ==
    /\ Blank
    /\ compound_score = 0
    /\ mood_rating = 0
    /\ stress_level = "Low"
    /\ history \in Histories

Suggest ==
    /\ op = "init"
    /\ suggestions' \in generate_suggestions(compound_score, stress_level, history)
    /\ op' = "suggest"
    /\ UNCHANGED <<store, user, entry_date, mood_rating, compound_score, stress_level,
                   history, response, raised, save_success, displayed, dashboard>>

SuggestWithModel ==
    /\ op = "init"
    /\ \E resp \in Responses :
          LET out == generate_suggestions_with_model(
                         compound_score, stress_level, history, resp)
          IN /\ response' = resp
             /\ suggestions' = out.value
             /\ raised' = out.raised
    /\ op' = "with_model"
    /\ UNCHANGED <<store, user, entry_date, mood_rating, compound_score, stress_level,
                   history, save_success, displayed, dashboard>>

NextSuggest == Suggest \/ SuggestWithModel

SpecSuggest == InitSuggest /\ [][NextSuggest]_vars

NextTrend == Suggest

SpecTrend == InitTrend /\ [][NextTrend]_vars

---------------------------------------------------------------------------
(* run_app: one script run of the authenticated view. *)

\* The suggestions written whatever the save returned.
display_suggestions_always(save_ok, value) == value

\* if save_success: ... for suggestion in suggestions: st.markdown(suggestion)
display_suggestions(save_ok, value) == IF save_ok THEN value ELSE <<>>

Init ==
    /\ Blank
    /\ compound_score = 0
    /\ mood_rating = 0
    /\ stress_level = ""
    /\ history = <<>>

\* "Analyze & Save Entry" with a non-blank text: steps 1 to 5 of the form
\* handler, the display of the suggestions, then the dashboard.  An exception
\* of step 4 ends the run before the save and before the dashboard.
Submit ==
    /\ Len(store) < MaxEntries
    /\ \E u \in Users, d \in Dates, in \in AppInputs, resp \in AppResponses,
          db_error \in BOOLEAN :
          LET score == in.score
              mood == in.mood
              level == classify_stress_level(score, mood)
              saved == save_journal_entry(store, u, d, mood, score, level, db_error)
          IN \E h \in history_df_before_save(store, saved.store, u) :
                LET out == generate_suggestions_with_model(score, level, h, resp)
                IN /\ user' = u
                   /\ entry_date' = d
                   /\ mood_rating' = mood
                   /\ compound_score' = score
                   /\ stress_level' = level
                   /\ history' = h
                   /\ response' = resp
                   /\ suggestions' = out.value
                   /\ raised' = out.raised
                   /\ IF out.raised
                      THEN /\ UNCHANGED store
                           /\ save_success' = FALSE
                           /\ displayed' = <<>>
                           /\ dashboard' = <<>>
                      ELSE /\ store' = saved.store
                           /\ save_success' = saved.ok
                           /\ displayed' = display_suggestions(saved.ok, out.value)
                           /\ dashboard' \in get_user_entries_df(saved.store, u)
    /\ op' = "submit"

\* "Analyze & Save Entry" with a blank text: a warning, then the dashboard.
BlankSubmit ==
    /\ \E u \in Users :
          /\ user' = u
          /\ dashboard' \in get_user_entries_df(store, u)
    /\ raised' = FALSE
    /\ save_success' = FALSE
    /\ displayed' = <<>>
    /\ op' = "blank"
    /\ UNCHANGED <<store, entry_date, mood_rating, compound_score, stress_level,
                   history, response, suggestions>>

\* A run without a submission: the dashboard alone.
ViewDashboard ==
    /\ \E u \in Users :
          /\ user' = u
          /\ dashboard' \in get_user_entries_df(store, u)
    /\ raised' = FALSE
    /\ save_success' = FALSE
    /\ displayed' = <<>>
    /\ op' = "view"
    /\ UNCHANGED <<store, entry_date, mood_rating, compound_score, stress_level,
                   history, response, suggestions>>

Next == Submit \/ BlankSubmit \/ ViewDashboard

Spec == Init /\ [][Next]_vars

---------------------------------------------------------------------------
(* Claims. *)

NoDuplicates(s) == \A i, j \in DOMAIN s : i # j => s[i] # s[j]

\* Sum of the mood ratings of rows lo..hi of a history.
RECURSIVE MoodTotal(_, _, _)
MoodTotal(h, lo, hi) == IF lo > hi THEN 0 ELSE h[lo].mood + MoodTotal(h, lo + 1, hi)

\* C1 as stated: the classifier returns High when score <= -0.5 or mood <= 3,
\* otherwise Medium when score < 0 or mood <= 5, otherwise Low; score -0.5
\* with mood 10 is High.
C1_HighAtMinusHalf ==
    op = "classify" =>
        /\ stress_level =
              (IF compound_score <= -50 \/ mood_rating <= 3 THEN "High"
               ELSE IF compound_score < 0 \/ mood_rating <= 5 THEN "Medium"
               ELSE "Low")
        /\ (compound_score = -50 /\ mood_rating = 10 => stress_level = "High")

\* C1 amended: the classifier returns High exactly when score < -0.5 or
\* mood <= 3, Medium exactly when it is not High and score < 0 or mood <= 5,
\* Low exactly when score >= 0 and mood >= 6; score -0.5 with mood 10 is
\* Medium.
C1_StrictHighThreshold ==
    op = "classify" =>
        /\ stress_level \in {"High", "Medium", "Low"}
        /\ stress_level = "High" <=> (compound_score < -50 \/ mood_rating <= 3)
        /\ stress_level = "Low" <=> (compound_score >= 0 /\ mood_rating >= 6)
        /\ (compound_score = -50 /\ mood_rating = 10 => stress_level = "Medium")

C1_Witness ==
    /\ op = "classify"
    /\ compound_score = -50
    /\ mood_rating = 10
    /\ stress_level = "Medium"

\* C2: when the text-generation call raises, generate_suggestions_with_model
\* raises nothing and returns a list the rule-based path produces for the
\* same score, stress level and history.
C2_FallbackWhenGeneratorRaises ==
    (op = "with_model" /\ response.raises) =>
        /\ ~raised
        /\ suggestions \in generate_suggestions(compound_score, stress_level, history)

\* C3: when the text-generation call returns an empty response (nothing left
\* once the prompt is removed and whitespace stripped), the function returns
\* the rule-based path's output, so a non-empty list.
C3_FallbackWhenResponseEmpty ==
    (op = "with_model" /\ ~response.raises /\ advice_text(response) = <<>>) =>
        /\ ~raised
        /\ suggestions # <<>>
        /\ suggestions \in generate_suggestions(compound_score, stress_level, history)

\* C4: generate_suggestions returns a list without duplicates whose first
\* element is the current-entry suggestion, followed by the Decline message
\* if it fired, then the ChronicStress message if it fired.
C4_CurrentFirstThenTrends ==
    op = "suggest" =>
        /\ NoDuplicates(suggestions)
        /\ suggestions = suggestions_list(compound_score, stress_level, history)

\* C5: in every Analyze & Save submission the history handed to suggestion
\* generation is the user's stored entries as they were before the save of
\* that submission: it holds one row per entry stored before, none for the
\* entry being submitted.
C5_HistoryReadBeforeSave ==
    [][op' = "submit" =>
          /\ history' \in get_user_entries_df(store, user')
          /\ Len(history') = Cardinality(UserRows(store, user'))
          /\ save_success' => Len(history') < Cardinality(UserRows(store', user'))]_vars

C5_Witness ==
    /\ op = "submit"
    /\ save_success
    /\ history # <<>>
    /\ Len(dashboard) = Len(history) + 1

\* C6: the store holds at most one journal entry per (user, date) pair.
C6_OneEntryPerUserAndDate ==
    \A i, j \in DOMAIN store :
        (store[i].user_id = store[j].user_id /\ store[i].entry_date = store[j].entry_date)
            => i = j

C8_ChronicIffHighAboveThirtyPercent ==
    op = "suggest" =>
        LET n == Len(history)
            high == Cardinality({i \in 1..n : history[i].stress = "High"})
        IN /\ (LongTermPattern \in Range(suggestions)) <=> (n >= 7 /\ 10 * high > 3 * n)
           /\ (n = 10 /\ high = 4) => LongTermPattern \in Range(suggestions)
           /\ (n = 10 /\ high = 3) => LongTermPattern \notin Range(suggestions)

C8_Witness ==
    /\ op = "suggest"
    /\ Len(history) = 10
    /\ Cardinality({i \in DOMAIN history : history[i].stress = "High"}) = 4
    /\ LongTermPattern \in Range(suggestions)

\* C9: every stored entry's stress level is classify_stress_level of that
\* entry's stored score and mood rating, and no step changes the stress level
\* of an entry already stored.
C9_StoredStressIsClassification ==
    [][/\ \A i \in DOMAIN store' :
             store'[i].ml_stress_level =
                 classify_stress_level(store'[i].vader_compound_score,
                                       store'[i].mood_rating)
       /\ Len(store') >= Len(store)
       /\ \A i \in DOMAIN store : store'[i] = store[i]]_vars

C9_Witness ==
    /\ op = "view"
    /\ Len(store) = 2
    /\ store[1].ml_stress_level = "High"
    /\ store[2].ml_stress_level = "Medium"

\* C10: the rule-based path produces exactly one current-entry suggestion:
\* stress relief when the level is High, else mood check-in when score < 0 and
\* the level is Medium, else positive reinforcement when score > 0.5, else
\* maintain balance.
C10_OneCurrentEntrySuggestion ==
    op = "suggest" =>
        LET expected ==
                IF stress_level = "High" THEN StressReduction
                ELSE IF compound_score < 0 /\ stress_level = "Medium" THEN MoodCheckIn
                ELSE IF compound_score > 50 THEN PositiveReinforcement
                ELSE MaintainBalance
        IN {suggestions[i] : i \in {j \in DOMAIN suggestions :
                                        suggestions[j] \in CurrentMessages}}
              = {expected}
           /\ Cardinality({j \in DOMAIN suggestions :
                              suggestions[j] \in CurrentMessages}) = 1

C10_Witness ==
    /\ op = "suggest"
    /\ stress_level = "Low"
    /\ compound_score < 0
    /\ MaintainBalance \in Range(suggestions)

\* The lines of a response, and whether a line has a visible character.
ResponseLines == split(advice_text(response))

Visible(line) == \E i \in DOMAIN line : line[i] # " "

\* C11 as stated: from a non-empty response the function keeps exactly the
\* non-empty lines whose first non-space character is not alphanumeric,
\* whatever their length, and every non-empty line when no line qualifies.
C11_KeepsBulletLinesOfAnyLength ==
    (op = "with_model" /\ ~response.raises /\ advice_text(response) # <<>>) =>
        LET nonempty == SelectSeq(ResponseLines, Visible)
            bullets == SelectSeq(nonempty, LAMBDA l : lstrip(l)[1] # "a")
        IN suggestions = IF bullets # <<>> THEN bullets ELSE nonempty

\* C11 amended: from a non-empty response the function keeps exactly, in
\* order, the lines that have a non-whitespace character and more than 5
\* characters, whatever their first character; nothing else is kept.
C11_KeepsVisibleLinesLongerThanFive ==
    (op = "with_model" /\ ~response.raises /\ advice_text(response) # <<>>) =>
        /\ ~raised
        /\ suggestions = SelectSeq(ResponseLines, LAMBDA l : Visible(l) /\ Len(l) >= 6)

C11_Witness ==
    /\ op = "with_model"
    /\ ~response.raises
    /\ Len(ResponseLines) = 2
    /\ Len(ResponseLines[1]) = 2
    /\ ResponseLines[1][1] = "*"
    /\ Len(suggestions) = 1
    /\ suggestions[1][1] = "a"

\* C12: a submission whose save fails leaves the store exactly as it was and
\* displays none of the suggestions it computed; suggestions are displayed
\* only in submissions whose save returned True.
C12_FailedSaveKeepsStoreAndShowsNothing ==
    [][op' = "submit" =>
          /\ ~save_success' => (store' = store /\ displayed' = <<>>)
          /\ displayed' # <<>> => (save_success' /\ displayed' = suggestions')
          /\ save_success' => Len(store') = Len(store) + 1]_vars

C12_Witness ==
    /\ op = "submit"
    /\ ~raised
    /\ ~save_success
    /\ suggestions # <<>>
    /\ displayed = <<>>
    /\ store # <<>>

====
